---- MODULE Spec2Model ----
(***************************************************************************)
(* Model of the lead scoring engine of lead_crawler                        *)
(* (scoring/probability_engine.py, class ProbabilityEngine).               *)
(*                                                                         *)
(* A lead is a Python dict: a function from field names to values.  A      *)
(* value is a str, an int, a list or None; a key may be absent.  Leads are *)
(* objects with identity: the heap maps an object id to its dict and a     *)
(* list of leads is a sequence of ids.  Strings are TLA+ strings, read     *)
(* character by character with Len and SubSeq.                             *)
(*                                                                         *)
(* Three specifications share the variables: Spec, the engine on a batch;  *)
(* SpecFn, single calls of the scoring methods; SpecMain, one run of the   *)
(* pipeline of main.py, whose steps are recorded in trace.                 *)
(***************************************************************************)
EXTENDS Integers, Sequences, FiniteSets, TLC

VARIABLES current_year, heap, leads, entry, pc, result, call, trace

vars == <<current_year, heap, leads, entry, pc, result, call, trace>>

(***************************************************************************)
(* Python values                                                           *)
(***************************************************************************)
PyStr(s) == [t |-> "str", s |-> s]
PyInt(n) == [t |-> "int", n |-> n]
PyNone == [t |-> "none"]
PyList(items) == [t |-> "list", items |-> items]

\* bool(v): the test behind "if not title", "if topic", "if year".
Truthy(v) ==
    CASE v.t = "str" -> v.s # ""
      [] v.t = "int" -> v.n # 0
      [] v.t = "list" -> v.items # <<>>
      [] OTHER -> FALSE

\* A call either returns a value or raises.
Return(v) == [ok |-> TRUE, v |-> v]
Raise(e) == [ok |-> FALSE, exc |-> e]

\* dict.get(key, default)
get(lead, key, default) == IF key \in DOMAIN lead THEN lead[key] ELSE default

\* lead[key] = value
put(lead, key, value) == (key :> value) @@ lead

(***************************************************************************)
(* str methods                                                             *)
(***************************************************************************)
UpperCase ==
    [A |-> "a", B |-> "b", C |-> "c", D |-> "d", E |-> "e", F |-> "f", G |-> "g",
     H |-> "h", I |-> "i", J |-> "j", K |-> "k", L |-> "l", M |-> "m", N |-> "n",
     O |-> "o", P |-> "p", Q |-> "q", R |-> "r", S |-> "s", T |-> "t", U |-> "u",
     V |-> "v", W |-> "w", X |-> "x", Y |-> "y", Z |-> "z"]

LowerChar(c) == IF c \in DOMAIN UpperCase THEN UpperCase[c] ELSE c

\* s.lower()
RECURSIVE lower(_)
lower(s) ==
    IF Len(s) = 0 THEN ""
    ELSE LowerChar(SubSeq(s, 1, 1)) \o lower(SubSeq(s, 2, Len(s)))

\* kw in s
Contains(s, kw) ==
    \E i \in 1..(Len(s) - Len(kw) + 1) : SubSeq(s, i, i + Len(kw) - 1) = kw

\* any(kw in s for kw in kws)
ContainsAny(s, kws) == \E kw \in kws : Contains(s, kw)

Digit ==
    [c \in {"0", "1", "2", "3", "4", "5", "6", "7", "8", "9"} |->
        CASE c = "0" -> 0 [] c = "1" -> 1 [] c = "2" -> 2 [] c = "3" -> 3
          [] c = "4" -> 4 [] c = "5" -> 5 [] c = "6" -> 6 [] c = "7" -> 7
          [] c = "8" -> 8 [] c = "9" -> 9]

\* str(n) for an int n >= 0
RECURSIVE DecimalOf(_)
DecimalOf(n) ==
    LET d == CHOOSE c \in DOMAIN Digit : Digit[c] = n % 10
    IN IF n < 10 THEN d ELSE DecimalOf(n \div 10) \o d

\* repr of the items of a list of str, joined with ", "
RECURSIVE repr_items(_)
repr_items(items) ==
    IF Len(items) = 0 THEN ""
    ELSE "'" \o Head(items).s \o "'" \o
         (IF Len(items) = 1 THEN "" ELSE ", " \o repr_items(Tail(items)))

\* str(v), also what an f-string puts for {v}
str(v) ==
    CASE v.t = "str" -> v.s
      [] v.t = "int" -> IF v.n < 0 THEN "-" \o DecimalOf(-v.n) ELSE DecimalOf(v.n)
      [] v.t = "list" -> "[" \o repr_items(v.items) \o "]"
      [] OTHER -> "None"

IsSpace(c) == c \in {" ", "\t", "\n", "\r"}

\* s.strip(), as int() applies it to its argument
RECURSIVE lstrip(_)
lstrip(s) ==
    IF Len(s) > 0 /\ IsSpace(SubSeq(s, 1, 1)) THEN lstrip(SubSeq(s, 2, Len(s))) ELSE s

RECURSIVE rstrip(_)
rstrip(s) ==
    IF Len(s) > 0 /\ IsSpace(SubSeq(s, Len(s), Len(s)))
    THEN rstrip(SubSeq(s, 1, Len(s) - 1)) ELSE s

strip(s) == rstrip(lstrip(s))

\* The digits of a decimal literal: digits, with single underscores between digits.
IsDigits(s) ==
    /\ Len(s) > 0
    /\ \A i \in 1..Len(s) :
          \/ SubSeq(s, i, i) \in DOMAIN Digit
          \/ /\ SubSeq(s, i, i) = "_"
             /\ 1 < i /\ i < Len(s)
             /\ SubSeq(s, i - 1, i - 1) \in DOMAIN Digit
             /\ SubSeq(s, i + 1, i + 1) \in DOMAIN Digit

RECURSIVE DigitsValue(_, _)
DigitsValue(s, acc) ==
    IF Len(s) = 0 THEN acc
    ELSE LET c == SubSeq(s, 1, 1)
             rest == SubSeq(s, 2, Len(s))
         IN IF c = "_" THEN DigitsValue(rest, acc)
            ELSE DigitsValue(rest, 10 * acc + Digit[c])

\* int(v): an int is returned as it is, a str is parsed as a base-10 literal
\* (surrounding whitespace and one sign allowed) or raises ValueError,
\* None raises TypeError.
int(v) ==
    CASE v.t = "int" -> Return(v.n)
      [] v.t = "str" ->
            LET body == strip(v.s)
                signed == Len(body) > 0 /\ SubSeq(body, 1, 1) \in {"+", "-"}
                digits == IF signed THEN SubSeq(body, 2, Len(body)) ELSE body
            IN IF ~IsDigits(digits) THEN Raise("ValueError")
               ELSE IF signed /\ SubSeq(body, 1, 1) = "-"
                    THEN Return(0 - DigitsValue(digits, 0))
                    ELSE Return(DigitsValue(digits, 0))
      [] OTHER -> Raise("TypeError")

\* int(weight * f) for the fraction f = num/den
Portion(weight, num, den) == (weight * num) \div den

(***************************************************************************)
(* ProbabilityEngine.__init__: configuration                               *)
(***************************************************************************)
weights ==
    [title_match |-> 30, funding_stage |-> 20, uses_invitro |-> 15,
     location_hub |-> 10, recent_dili_publication |-> 40]

title_keywords ==
    {"director", "vp", "vice president", "head", "chief",
     "senior", "principal", "lead", "manager"}

role_keywords ==
    {"toxicology", "toxicologist", "safety", "hepatic",
     "preclinical", "liver", "dmpk", "adme"}

hub_locations ==
    {"boston", "cambridge", "massachusetts",
     "san francisco", "bay area", "palo alto",
     "san diego", "la jolla",
     "basel", "zurich", "switzerland",
     "london", "oxford", "uk",
     "munich", "germany",
     "new jersey", "princeton",
     "maryland", "bethesda"}

dili_keywords ==
    {"drug-induced liver injury", "drug induced liver injury",
     "dili", "hepatotoxicity", "liver toxicity", "hepatic toxicity",
     "liver injury"}

funding_high == {"series a", "series b", "series c"}
funding_medium == {"grant", "nih", "funded", "clinical trial"}
funding_low == {"seed", "private"}
tech_keywords == {"3d", "in vitro", "organ-on-chip", "spheroid", "organoid"}
liver_keywords == {"liver", "hepat", "toxicol"}

(***************************************************************************)
(* The five component scores.  Each returns Return(score) or, where the    *)
(* code calls .lower() on a value that is not a str, Raise.                *)
(***************************************************************************)

\* _score_title with the 60% and 30% branches exchanged.
_score_title_swapped(title) ==
    IF ~Truthy(title) THEN Return(0)
    ELSE IF title.t # "str" THEN Raise("AttributeError")
    ELSE LET title_lower == lower(title.s)
             has_senior_title == ContainsAny(title_lower, title_keywords)
             has_relevant_role == ContainsAny(title_lower, role_keywords)
         IN IF has_senior_title /\ has_relevant_role
               THEN Return(weights.title_match)
            ELSE IF has_senior_title
               THEN Return(Portion(weights.title_match, 6, 10))
            ELSE IF has_relevant_role
               THEN Return(Portion(weights.title_match, 3, 10))
            ELSE Return(0)

_score_title(title) ==
    IF ~Truthy(title) THEN Return(0)
    ELSE IF title.t # "str" THEN Raise("AttributeError")
    ELSE LET title_lower == lower(title.s)
             has_senior_title == ContainsAny(title_lower, title_keywords)
             has_relevant_role == ContainsAny(title_lower, role_keywords)
         IN IF has_senior_title /\ has_relevant_role
               THEN Return(weights.title_match)
            ELSE IF has_relevant_role
               THEN Return(Portion(weights.title_match, 6, 10))
            ELSE IF has_senior_title
               THEN Return(Portion(weights.title_match, 3, 10))
            ELSE Return(0)

\* _score_funding testing the tiers from the lowest up.
_score_funding_low_first(funding_stage) ==
    IF ~Truthy(funding_stage) THEN Return(0)
    ELSE IF funding_stage.t # "str" THEN Raise("AttributeError")
    ELSE LET funding_lower == lower(funding_stage.s)
         IN IF ContainsAny(funding_lower, funding_low)
               THEN Return(Portion(weights.funding_stage, 4, 10))
            ELSE IF ContainsAny(funding_lower, funding_medium)
               THEN Return(Portion(weights.funding_stage, 8, 10))
            ELSE IF ContainsAny(funding_lower, funding_high)
               THEN Return(weights.funding_stage)
            ELSE Return(0)

_score_funding(funding_stage) ==
    IF ~Truthy(funding_stage) THEN Return(0)
    ELSE IF funding_stage.t # "str" THEN Raise("AttributeError")
    ELSE LET funding_lower == lower(funding_stage.s)
         IN IF ContainsAny(funding_lower, funding_high)
               THEN Return(weights.funding_stage)
            ELSE IF ContainsAny(funding_lower, funding_medium)
               THEN Return(Portion(weights.funding_stage, 8, 10))
            ELSE IF ContainsAny(funding_lower, funding_low)
               THEN Return(Portion(weights.funding_stage, 4, 10))
            ELSE Return(0)

Max(a, b) == IF a >= b THEN a ELSE b
Min(a, b) == IF a <= b THEN a ELSE b

\* _score_technology counting every flag other than "no" as a yes.
_score_technology_not_no(uses_invitro, topic) ==
    LET score == IF lower(str(uses_invitro)) # "no" THEN weights.uses_invitro ELSE 0
    IN IF ~Truthy(topic) THEN Return(score)
       ELSE IF topic.t # "str" THEN Raise("AttributeError")
       ELSE IF ContainsAny(lower(topic.s), tech_keywords)
            THEN Return(Max(score, weights.uses_invitro))
            ELSE Return(score)

\* _score_technology adding the topic signal to the flag instead of taking the max.
_score_technology_additive(uses_invitro, topic) ==
    LET score == IF lower(str(uses_invitro)) = "yes" THEN weights.uses_invitro ELSE 0
    IN IF ~Truthy(topic) THEN Return(score)
       ELSE IF topic.t # "str" THEN Raise("AttributeError")
       ELSE IF ContainsAny(lower(topic.s), tech_keywords)
            THEN Return(score + weights.uses_invitro)
            ELSE Return(score)

_score_technology(uses_invitro, topic) ==
    LET score == IF lower(str(uses_invitro)) = "yes" THEN weights.uses_invitro ELSE 0
    IN IF ~Truthy(topic) THEN Return(score)
       ELSE IF topic.t # "str" THEN Raise("AttributeError")
       ELSE IF ContainsAny(lower(topic.s), tech_keywords)
            THEN Return(Max(score, weights.uses_invitro))
            ELSE Return(score)

\* f"{person_location} {company_hq}".lower() and the hub test, as written in
\* _score_location and again in score_leads.
InHub(person_location, company_hq) ==
    ContainsAny(lower(str(person_location) \o " " \o str(company_hq)), hub_locations)

\* _score_location adding the weight once for each of the two fields that
\* names a hub.
_score_location_per_field(person_location, company_hq) ==
    Return((IF InHub(person_location, PyStr("")) THEN weights.location_hub ELSE 0)
           + (IF InHub(PyStr(""), company_hq) THEN weights.location_hub ELSE 0))

_score_location(person_location, company_hq) ==
    IF InHub(person_location, company_hq) THEN Return(weights.location_hub) ELSE Return(0)

\* pub_year parsing with int(float(year)): a str with a decimal point counts
\* as the year before the point.
pub_year_via_float(year) ==
    IF ~Truthy(year) THEN 0
    ELSE IF int(year).ok THEN int(year).v
    ELSE IF year.t = "str" /\ Contains(year.s, ".")
         THEN LET dot == CHOOSE i \in 1..Len(year.s) :
                            /\ SubSeq(year.s, i, i) = "."
                            /\ \A j \in 1..(i - 1) : SubSeq(year.s, j, j) # "."
                  whole == int(PyStr(SubSeq(year.s, 1, dot - 1)))
              IN IF whole.ok THEN whole.v ELSE 0
         ELSE 0

\* try: pub_year = int(year) if year else 0 / except: pub_year = 0
pub_year(year) ==
    IF ~Truthy(year) THEN 0
    ELSE IF int(year).ok THEN int(year).v ELSE 0

\* is_recent with > in place of >=.
is_recent_strict(year, cy) == pub_year(year) > cy - 2

is_recent(year, cy) == pub_year(year) >= cy - 2

_score_publication(topic, year, cy) ==
    IF ~Truthy(topic) THEN Return(0)
    ELSE IF topic.t # "str" THEN Raise("AttributeError")
    ELSE LET topic_lower == lower(topic.s)
             recent == is_recent(year, cy)
             has_dili == ContainsAny(topic_lower, dili_keywords)
             has_liver == ContainsAny(topic_lower, liver_keywords)
         IN IF recent /\ has_dili
               THEN Return(weights.recent_dili_publication)
            ELSE IF recent /\ has_liver
               THEN Return(Portion(weights.recent_dili_publication, 5, 10))
            ELSE IF has_dili \/ has_liver
               THEN Return(Portion(weights.recent_dili_publication, 25, 100))
            ELSE Return(0)

\* components with lead.get("uses_invitro", "Yes") as the default.
components_default_yes(lead, cy) ==
    << _score_title(get(lead, "title", PyStr(""))),
       _score_funding(get(lead, "funding_stage", PyStr(""))),
       _score_technology(get(lead, "uses_invitro", PyStr("Yes")),
                         get(lead, "publication_topic", PyStr(""))),
       _score_location(get(lead, "person_location", PyStr("")),
                       get(lead, "company_hq", PyStr(""))),
       _score_publication(get(lead, "publication_topic", PyStr("")),
                          get(lead, "publication_year", PyStr("")), cy) >>

\* The five calls of calculate_score, in the order the code makes them.
components(lead, cy) ==
    << _score_title(get(lead, "title", PyStr(""))),
       _score_funding(get(lead, "funding_stage", PyStr(""))),
       _score_technology(get(lead, "uses_invitro", PyStr("No")),
                         get(lead, "publication_topic", PyStr(""))),
       _score_location(get(lead, "person_location", PyStr("")),
                       get(lead, "company_hq", PyStr(""))),
       _score_publication(get(lead, "publication_topic", PyStr("")),
                          get(lead, "publication_year", PyStr("")), cy) >>

\* calculate_score returning the plain sum, without min(score, 100).
calculate_score_uncapped(lead, cy) ==
    LET c == components(lead, cy)
    IN IF \E i \in 1..5 : ~c[i].ok
       THEN c[CHOOSE i \in 1..5 : ~c[i].ok /\ \A j \in 1..(i - 1) : c[j].ok]
       ELSE Return(c[1].v + c[2].v + c[3].v + c[4].v + c[5].v)

\* calculate_score without the score += self._score_location(...) statement.
calculate_score_no_location(lead, cy) ==
    LET c == components(lead, cy)
    IN IF \E i \in 1..5 : ~c[i].ok
       THEN c[CHOOSE i \in 1..5 : ~c[i].ok /\ \A j \in 1..(i - 1) : c[j].ok]
       ELSE Return(Min(c[1].v + c[2].v + c[3].v + c[5].v, 100))

\* calculate_score keeping the probability_score the lead already holds when
\* that one is the higher.
calculate_score_keeping_higher(lead, cy) ==
    LET c == components(lead, cy)
        held == get(lead, "probability_score", PyInt(0))
    IN IF \E i \in 1..5 : ~c[i].ok
       THEN c[CHOOSE i \in 1..5 : ~c[i].ok /\ \A j \in 1..(i - 1) : c[j].ok]
       ELSE Return(Max(Min(c[1].v + c[2].v + c[3].v + c[4].v + c[5].v, 100),
                       IF held.t = "int" THEN held.n ELSE 0))

\* score += ... five times, then min(score, 100); the first call that raises
\* ends calculate_score with its exception.
calculate_score(lead, cy) ==
    LET c == components(lead, cy)
    IN IF \E i \in 1..5 : ~c[i].ok
       THEN c[CHOOSE i \in 1..5 : ~c[i].ok /\ \A j \in 1..(i - 1) : c[j].ok]
       ELSE Return(Min(c[1].v + c[2].v + c[3].v + c[4].v + c[5].v, 100))

(***************************************************************************)
(* score_leads                                                             *)
(***************************************************************************)
\* for lead in leads: lead["probability_score"] = self.calculate_score(lead)
\* from position i on; stops at the first lead whose scoring raises.
RECURSIVE score_loop(_, _, _, _)
score_loop(h, ls, i, cy) ==
    IF i > Len(ls) THEN [ok |-> TRUE, heap |-> h]
    ELSE LET r == calculate_score(h[ls[i]], cy)
         IN IF ~r.ok THEN [ok |-> FALSE, heap |-> h]
            ELSE score_loop([h EXCEPT ![ls[i]] = put(@, "probability_score", PyInt(r.v))],
                            ls, i + 1, cy)

\* key=lambda x: x["probability_score"]
sort_key(h, id) == h[id]["probability_score"].n

\* insert_desc comparing with > : x goes before the elements equal to it.
RECURSIVE insert_desc_unstable(_, _, _)
insert_desc_unstable(h, sorted, x) ==
    IF Len(sorted) = 0 THEN <<x>>
    ELSE IF sort_key(h, Head(sorted)) > sort_key(h, x)
         THEN <<Head(sorted)>> \o insert_desc_unstable(h, Tail(sorted), x)
         ELSE <<x>> \o sorted

\* One step of the stable descending sort: x goes after every element whose
\* key is greater than or equal to its own.
RECURSIVE insert_desc(_, _, _)
insert_desc(h, sorted, x) ==
    IF Len(sorted) = 0 THEN <<x>>
    ELSE IF sort_key(h, Head(sorted)) >= sort_key(h, x)
         THEN <<Head(sorted)>> \o insert_desc(h, Tail(sorted), x)
         ELSE <<x>> \o sorted

\* leads.sort(...) without reverse=True: ascending, stable.
RECURSIVE sort_ascending(_, _)
sort_ascending(h, ls) ==
    IF Len(ls) = 0 THEN <<>>
    ELSE LET rest == sort_ascending(h, SubSeq(ls, 1, Len(ls) - 1))
             x == ls[Len(ls)]
             n == Cardinality({i \in 1..Len(rest) : sort_key(h, rest[i]) <= sort_key(h, x)})
         IN SubSeq(rest, 1, n) \o <<x>> \o SubSeq(rest, n + 1, Len(rest))

\* A sort that keeps one lead per score.
RECURSIVE sort_unique(_, _)
sort_unique(h, ls) ==
    IF Len(ls) = 0 THEN <<>>
    ELSE LET rest == sort_unique(h, SubSeq(ls, 1, Len(ls) - 1))
             x == ls[Len(ls)]
         IN IF \E i \in 1..Len(rest) : sort_key(h, rest[i]) = sort_key(h, x)
            THEN rest ELSE insert_desc(h, rest, x)

\* sorted(leads, key=...)[::-1]: ascending, then reversed, so that leads with
\* equal keys come out in the reverse of their input order.
sort_then_reversed(h, ls) ==
    LET up == sort_ascending(h, ls)
    IN [i \in 1..Len(up) |-> up[Len(up) + 1 - i]]

\* score_leads without the sort: the list stays in its input order.
sort_kept_order(h, ls) == ls

\* leads.sort(key=..., reverse=True): list.sort is stable, also when reversed.
RECURSIVE sort_reverse(_, _)
sort_reverse(h, ls) ==
    IF Len(ls) = 0 THEN <<>>
    ELSE insert_desc(h, sort_reverse(h, SubSeq(ls, 1, Len(ls) - 1)), ls[Len(ls)])

\* rank_loop with enumerate(leads) counting from 0.
RECURSIVE rank_loop_from_zero(_, _, _)
rank_loop_from_zero(h, ls, i) ==
    IF i > Len(ls) THEN h
    ELSE rank_loop_from_zero([h EXCEPT ![ls[i]] = put(@, "rank", PyInt(i - 1))], ls, i + 1)

\* for i, lead in enumerate(leads, 1): lead["rank"] = i
RECURSIVE rank_loop(_, _, _)
rank_loop(h, ls, i) ==
    IF i > Len(ls) THEN h
    ELSE rank_loop([h EXCEPT ![ls[i]] = put(@, "rank", PyInt(i))], ls, i + 1)

\* hub_flag written as str(in_hub): Python's "True" and "False".
hub_flag_str_bool(lead) ==
    IF InHub(get(lead, "person_location", PyStr("")), get(lead, "company_hq", PyStr("")))
    THEN PyStr("True") ELSE PyStr("False")

\* "TRUE" if any(hub in location for hub in self.hub_locations) else "FALSE"
hub_flag(lead) ==
    IF InHub(get(lead, "person_location", PyStr("")), get(lead, "company_hq", PyStr("")))
    THEN PyStr("TRUE") ELSE PyStr("FALSE")

\* hub_loop that also stores the company_hq it tested, in lower case.
RECURSIVE hub_loop_normalising(_, _, _)
hub_loop_normalising(h, ls, i) ==
    IF i > Len(ls) THEN h
    ELSE hub_loop_normalising(
            [h EXCEPT ![ls[i]] =
                put(put(@, "company_in_hub", hub_flag(@)), "company_hq",
                    PyStr(lower(str(get(@, "company_hq", PyStr(""))))))],
            ls, i + 1)

\* for lead in leads: lead["company_in_hub"] = "TRUE" if ... else "FALSE"
RECURSIVE hub_loop(_, _, _)
hub_loop(h, ls, i) ==
    IF i > Len(ls) THEN h
    ELSE hub_loop([h EXCEPT ![ls[i]] = put(@, "company_in_hub", hub_flag(@))], ls, i + 1)

(***************************************************************************)
(* Inputs and bounds                                                       *)
(***************************************************************************)
MaxLen == 3

\* datetime.now().year at construction
CurrentYears == {2025, 2026}

\* The two leads of the module's own test block.
JohnSmith ==
    [name |-> PyStr("Dr. John Smith"), title |-> PyStr("Director of Toxicology"),
     company |-> PyStr("ABC Biotech"), person_location |-> PyStr("Boston"),
     company_hq |-> PyStr("Cambridge, MA"), funding_stage |-> PyStr("Series B"),
     publication_topic |-> PyStr("Drug-Induced Liver Injury Models"),
     publication_year |-> PyStr("2024"), uses_invitro |-> PyStr("Yes")]

JaneDoe ==
    [name |-> PyStr("Jane Doe"), title |-> PyStr("Junior Scientist"),
     company |-> PyStr("StartupX"), person_location |-> PyStr("Texas"),
     company_hq |-> PyStr("Austin"), funding_stage |-> PyStr("Seed"),
     publication_topic |-> PyStr("Cell Culture Methods"),
     publication_year |-> PyStr("2021"), uses_invitro |-> PyStr("No")]

\* With a recent year the components are 30 + 20 + 0 + 10 + 40: exactly 100
\* without the cap.  The year is recent for an engine built in 2025 only.
\* The lead also carries fields the engine does not know.
ExactHundred ==
    [name |-> PyStr("Amy Wu"), title |-> PyStr("Head of Preclinical Safety"),
     company |-> PyStr("Hepa AG"), person_location |-> PyStr("Basel"),
     company_hq |-> PyStr("Basel"), funding_stage |-> PyStr("Series A, NIH funded"),
     publication_topic |-> PyStr("Mechanisms of Hepatotoxicity"),
     publication_year |-> PyStr(" 2023 "), uses_invitro |-> PyStr("No"),
     source |-> PyStr("PubMed"), notes |-> PyInt(3)]

\* A lead as the NIH collector builds it, without a project start date.
NihLead ==
    [name |-> PyStr("Raj Patel"), title |-> PyStr("Principal Investigator"),
     company |-> PyStr("NIDDK"), person_location |-> PyStr("Bethesda, MD"),
     company_hq |-> PyStr("Bethesda, MD"), funding_stage |-> PyStr("NIH Grant"),
     publication_topic |-> PyStr("Liver Fibrosis"),
     publication_year |-> PyStr(""), uses_invitro |-> PyStr("No"),
     email |-> PyStr(""), work_mode |-> PyStr("Unknown"),
     company_in_hub |-> PyStr(""), source |-> PyStr("NIH RePORTER")]

\* A lead as the clinical-trials collector builds it.
TrialLead ==
    [name |-> PyStr("Eva Roth"), title |-> PyStr("Clinical Investigator"),
     company |-> PyStr("Charite"), person_location |-> PyStr("Berlin"),
     company_hq |-> PyStr("Berlin"), funding_stage |-> PyStr("Clinical Trial"),
     publication_topic |-> PyStr("3D Liver Spheroid Safety Study"),
     publication_year |-> PyStr("2023"), uses_invitro |-> PyStr("Liver Focus"),
     email |-> PyStr(""), work_mode |-> PyStr("Unknown"),
     company_in_hub |-> PyStr(""), source |-> PyStr("ClinicalTrials.gov")]

\* Every scored field absent.
BareLead == [name |-> PyStr("Ann Lee"), company |-> PyStr("Unknown")]

\* Every scored field empty or None.
EmptyLead ==
    [name |-> PyStr("Bo Chen"), title |-> PyStr(""), company |-> PyStr(""),
     person_location |-> PyStr(""), company_hq |-> PyStr(""),
     funding_stage |-> PyStr(""), publication_topic |-> PyNone,
     publication_year |-> PyNone, uses_invitro |-> PyStr("")]

\* A title that is not a str.
NumberTitle ==
    [name |-> PyStr("Cy Young"), title |-> PyInt(7), company |-> PyStr("Acme"),
     funding_stage |-> PyStr("Private"), uses_invitro |-> PyStr("YES")]

\* A lead that was scored before, in another batch: the scored fields of
\* JaneDoe under another name, with the output fields of that earlier run.
Rescored ==
    [name |-> PyStr("Ana Lima"), title |-> PyStr("Junior Scientist"),
     company |-> PyStr("Hepacell"), person_location |-> PyStr("Texas"),
     company_hq |-> PyStr("Austin"), funding_stage |-> PyStr("Seed"),
     publication_topic |-> PyStr("Cell Culture Methods"),
     publication_year |-> PyStr("2021"), uses_invitro |-> PyStr("No"),
     email |-> PyStr("ana.lima@hepacell.com"), source |-> PyStr("NIH RePORTER"),
     probability_score |-> PyInt(97), rank |-> PyInt(9),
     company_in_hub |-> PyStr("TRUE")]

\* The leads a batch is drawn from.
Catalogue ==
    {JohnSmith, JaneDoe, ExactHundred, BareLead, EmptyLead, NumberTitle, Rescored}

NoCall == [fn |-> "none"]

(***************************************************************************)
(* Specification of the engine on a batch                                  *)
(***************************************************************************)
\* A caller holds a list of up to MaxLen distinct lead objects and an engine.
Init ==
    /\ current_year \in CurrentYears
    /\ \E n \in 0..MaxLen :
          /\ heap \in [1..n -> Catalogue]
          /\ leads = [i \in 1..n |-> i]
    /\ entry = [leads |-> <<>>, heap |-> <<>>]
    /\ pc = "idle"
    /\ result = <<>>
    /\ call = NoCall
    /\ trace = <<>>

\* score_leads with sorted(leads, ...) in place of leads.sort(...): a new list
\* is ranked, flagged and returned, the caller's list stays as it was.
ScoreLeads_sorted_copy ==
    /\ pc \in {"idle", "returned"}
    /\ \E scored \in {score_loop(heap, leads, 1, current_year)} :
          IF ~scored.ok
          THEN /\ heap' = scored.heap
               /\ pc' = "raised"
               /\ UNCHANGED <<leads, result>>
          ELSE \E sorted \in {sort_reverse(scored.heap, leads)} :
               \E ranked \in {rank_loop(scored.heap, sorted, 1)} :
                  /\ heap' = hub_loop(ranked, sorted, 1)
                  /\ leads' = leads
                  /\ result' = sorted
                  /\ pc' = "returned"
    /\ entry' = [leads |-> leads, heap |-> heap]
    /\ UNCHANGED <<current_year, call, trace>>

\* engine.score_leads(leads), on a fresh list or again on the list it returned:
\* the scoring loop, then the sort of the list in place, the rank loop and the
\* hub loop; the list itself is returned.  A lead whose scoring raises ends
\* the call there, with the leads before it scored and the list as it was.
ScoreLeads ==
    /\ pc \in {"idle", "returned"}
    /\ \E scored \in {score_loop(heap, leads, 1, current_year)} :
          IF ~scored.ok
          THEN /\ heap' = scored.heap
               /\ pc' = "raised"
               /\ UNCHANGED <<leads, result>>
          ELSE \E sorted \in {sort_reverse(scored.heap, leads)} :
               \E ranked \in {rank_loop(scored.heap, sorted, 1)} :
                  /\ heap' = hub_loop(ranked, sorted, 1)
                  /\ leads' = sorted
                  /\ result' = sorted
                  /\ pc' = "returned"
    /\ entry' = [leads |-> leads, heap |-> heap]
    /\ UNCHANGED <<current_year, call, trace>>

Next == ScoreLeads

Spec == Init /\ [][Next]_vars

(***************************************************************************)
(* Specification of single calls of the scoring methods                    *)
(***************************************************************************)
Strs(S) == {PyStr(x) : x \in S}

TitleInputs ==
    Strs({"", "Director of Toxicology", "Toxicologist", "Senior Scientist",
          "Junior Scientist", "VP, DRUG SAFETY", "Team Leader",
          "Researcher / Author"})
    \cup {PyNone, PyInt(0), PyInt(7)}

FundingInputs ==
    Strs({"", "Series B", "NIH Grant", "Seed", "Seed grant", "Series A, NIH funded",
          "Private", "Unknown", "Clinical Trial", "SERIES C (seed extension)",
          "Unfunded"})
    \cup {PyNone, PyInt(3)}

InvitroInputs ==
    Strs({"Yes", "yes", "YES", "No", "Liver Focus", "", " yes", "Yes please"})
    \cup {PyNone, PyInt(1)}

TopicInputs ==
    Strs({"", "Drug-Induced Liver Injury Models", "Cell Culture Methods",
          "3D Liver Spheroid Safety Study", "In Vitro Hepatotoxicity Screening",
          "DILI Prediction", "Liver Fibrosis", "Organoid Imaging",
          "Predictive Toxicology"})
    \cup {PyNone, PyInt(42)}

YearInputs ==
    Strs({"2024", "2021", "2023", "", "abc", " 2024 ", "2024.0", "+2025", "2_024",
          "-1"})
    \cup {PyNone, PyInt(2024), PyInt(0), PyInt(1999)}

LocationInputs ==
    Strs({"", "Boston", "Cambridge, MA", "Austin", "Austin, TX", "Texas", "LONDON",
          "Milwaukee"})
    \cup {PyNone, PyInt(5)}

\* Leads with every scored field present, for calculate_score.
FullLeads ==
    [title : Strs({"Director of Toxicology", "Toxicologist", "Junior Scientist"}),
     funding_stage : Strs({"Series B", "NIH Grant", "Unknown"}),
     uses_invitro : Strs({"Yes", "No"}),
     person_location : Strs({"Boston", "Austin"}),
     company_hq : Strs({"Austin, TX"}),
     publication_topic : Strs({"Drug-Induced Liver Injury Models", "Liver Fibrosis",
                               "Cell Culture Methods"}),
     publication_year : Strs({"2024", "2021"})]

LeadInputs == Catalogue \cup {NihLead, TrialLead} \cup FullLeads

\* The fields calculate_score reads, and the fields each of its five calls reads.
ScoredFields ==
    {"title", "funding_stage", "uses_invitro", "person_location", "company_hq",
     "publication_topic", "publication_year"}

ComponentFields ==
    << {"title"}, {"funding_stage"}, {"uses_invitro", "publication_topic"},
       {"person_location", "company_hq"}, {"publication_topic", "publication_year"} >>

\* Leads that score on every component, to take fields away from.
PartialBases == {JohnSmith, ExactHundred, TrialLead}

\* The lead without the fields absent: the keys deleted, or left with "".
Without(lead, absent, how) ==
    IF how = "missing"
    THEN [k \in DOMAIN lead \ absent |-> lead[k]]
    ELSE [k \in DOMAIN lead |-> IF k \in absent THEN PyStr("") ELSE lead[k]]

InitFn ==
    /\ current_year \in CurrentYears
    /\ heap = <<>>
    /\ leads = <<>>
    /\ entry = [leads |-> <<>>, heap |-> <<>>]
    /\ pc = "fn"
    /\ result = <<>>
    /\ call = NoCall
    /\ trace = <<>>

\* The methods are pure: a call leaves the engine as it was, so one call from
\* the initial state reaches every state a sequence of calls could.
fn_frame == UNCHANGED <<current_year, heap, leads, entry, pc, result, trace>>

ScoreTitle ==
    /\ pc = "fn" /\ call = NoCall
    /\ \E title \in TitleInputs :
          call' = [fn |-> "_score_title", args |-> <<title>>,
                   out |-> _score_title(title)]
    /\ fn_frame

ScoreFunding ==
    /\ pc = "fn" /\ call = NoCall
    /\ \E funding_stage \in FundingInputs :
          call' = [fn |-> "_score_funding", args |-> <<funding_stage>>,
                   out |-> _score_funding(funding_stage)]
    /\ fn_frame

ScoreTechnology ==
    /\ pc = "fn" /\ call = NoCall
    /\ \E uses_invitro \in InvitroInputs, topic \in TopicInputs :
          call' = [fn |-> "_score_technology", args |-> <<uses_invitro, topic>>,
                   out |-> _score_technology(uses_invitro, topic)]
    /\ fn_frame

ScoreLocation ==
    /\ pc = "fn" /\ call = NoCall
    /\ \E person_location \in LocationInputs, company_hq \in LocationInputs :
          call' = [fn |-> "_score_location", args |-> <<person_location, company_hq>>,
                   out |-> _score_location(person_location, company_hq)]
    /\ fn_frame

ScorePublication ==
    /\ pc = "fn" /\ call = NoCall
    /\ \E topic \in TopicInputs, year \in YearInputs :
          call' = [fn |-> "_score_publication", args |-> <<topic, year>>,
                   out |-> _score_publication(topic, year, current_year)]
    /\ fn_frame

CalculateScore ==
    /\ pc = "fn" /\ call = NoCall
    /\ \E lead \in LeadInputs :
          call' = [fn |-> "calculate_score", args |-> <<lead>>,
                   out |-> calculate_score(lead, current_year)]
    /\ fn_frame

\* calculate_score on a lead that lacks some of the scored fields; the call
\* record keeps the full lead and the fields taken away.
CalculateScoreWithout ==
    /\ pc = "fn" /\ call = NoCall
    /\ \E full \in PartialBases, absent \in SUBSET ScoredFields,
          how \in {"missing", "empty"} :
          \E lead \in {Without(full, absent, how)} :
             call' = [fn |-> "calculate_score", args |-> <<lead>>,
                      out |-> calculate_score(lead, current_year),
                      full |-> full, absent |-> absent]
    /\ fn_frame

NextFn ==
    \/ ScoreTitle
    \/ ScoreFunding
    \/ ScoreTechnology
    \/ ScoreLocation
    \/ ScorePublication
    \/ CalculateScore
    \/ CalculateScoreWithout

SpecFn == InitFn /\ [][NextFn]_vars

(***************************************************************************)
(* crawlers/email_generator.py: EmailGenerator                             *)
(***************************************************************************)
LowerLetters == {UpperCase[c] : c \in DOMAIN UpperCase}

\* The characters the pattern \w matches in a lower-cased ASCII text.
WordChars == LowerLetters \cup DOMAIN Digit \cup {"_"}

\* s.replace(sub, "")
RECURSIVE remove_all(_, _)
remove_all(s, sub) ==
    IF Len(s) < Len(sub) THEN s
    ELSE IF SubSeq(s, 1, Len(sub)) = sub
         THEN remove_all(SubSeq(s, Len(sub) + 1, Len(s)), sub)
         ELSE SubSeq(s, 1, 1) \o remove_all(SubSeq(s, 2, Len(s)), sub)

\* s.split(): the words between runs of whitespace
RECURSIVE split(_)
split(s) ==
    LET t == lstrip(s)
    IN IF Len(t) = 0 THEN <<>>
       ELSE LET ends == {i \in 1..Len(t) : IsSpace(SubSeq(t, i, i))}
                n == IF ends = {} THEN Len(t) + 1
                     ELSE CHOOSE i \in ends : \A j \in ends : i <= j
            IN <<SubSeq(t, 1, n - 1)>> \o split(SubSeq(t, n, Len(t)))

\* re.sub(r'[^...]', '', s): the characters of s that are in keep
RECURSIVE only_chars(_, _)
only_chars(s, keep) ==
    IF Len(s) = 0 THEN ""
    ELSE (IF SubSeq(s, 1, 1) \in keep THEN SubSeq(s, 1, 1) ELSE "")
         \o only_chars(SubSeq(s, 2, Len(s)), keep)

\* for title in [...]: name = name.replace(title, "")
RECURSIVE strip_titles(_, _)
strip_titles(name, titles) ==
    IF Len(titles) = 0 THEN name
    ELSE strip_titles(remove_all(name, Head(titles)), Tail(titles))

NameTitles == <<"dr.", "dr", "prof.", "prof", "mr.", "mrs.", "ms.", "phd", "md">>

\* _parse_name: (first, last), or (None, None)
_parse_name(name) ==
    IF ~Truthy(name) THEN Return(<<PyNone, PyNone>>)
    ELSE IF name.t # "str" THEN Raise("AttributeError")
    ELSE LET parts == split(strip(strip_titles(lower(name.s), NameTitles)))
         IN IF Len(parts) < 2 THEN Return(<<PyNone, PyNone>>)
            ELSE Return(<<PyStr(only_chars(parts[1], LowerLetters)),
                          PyStr(only_chars(parts[Len(parts)], LowerLetters))>>)

KNOWN_DOMAINS ==
    << <<"pfizer", "pfizer.com">>, <<"novartis", "novartis.com">>,
       <<"roche", "roche.com">>, <<"merck", "merck.com">>, <<"johnson", "jnj.com">>,
       <<"astrazeneca", "astrazeneca.com">>, <<"gsk", "gsk.com">>,
       <<"glaxosmithkline", "gsk.com">>, <<"sanofi", "sanofi.com">>,
       <<"abbvie", "abbvie.com">>, <<"bristol", "bms.com">>, <<"lilly", "lilly.com">>,
       <<"eli lilly", "lilly.com">>, <<"amgen", "amgen.com">>,
       <<"gilead", "gilead.com">>, <<"biogen", "biogen.com">>,
       <<"regeneron", "regeneron.com">>, <<"moderna", "modernatx.com">>,
       <<"biontech", "biontech.de">>, <<"takeda", "takeda.com">>,
       <<"boehringer", "boehringer-ingelheim.com">>, <<"harvard", "harvard.edu">>,
       <<"mit", "mit.edu">>, <<"stanford", "stanford.edu">>, <<"yale", "yale.edu">>,
       <<"columbia", "columbia.edu">>, <<"johns hopkins", "jhu.edu">>,
       <<"nih", "nih.gov">>, <<"fda", "fda.hhs.gov">>, <<"emulate", "emulatebio.com">>,
       <<"organovo", "organovo.com">>, <<"insphero", "insphero.com">> >>

\* The maximal run of word characters of s that starts at i.
RECURSIVE word_from(_, _)
word_from(s, i) ==
    IF i > Len(s) \/ SubSeq(s, i, i) \notin WordChars THEN ""
    ELSE SubSeq(s, i, i) \o word_from(s, i + 1)

\* The maximal run of word characters of s that ends at i.
RECURSIVE word_until(_, _)
word_until(s, i) ==
    IF i < 1 \/ SubSeq(s, i, i) \notin WordChars THEN ""
    ELSE word_until(s, i - 1) \o SubSeq(s, i, i)

\* re.search(prefix + r"(\w+)", s): group 1 of the leftmost match, or None
search_after(s, prefix) ==
    LET hits == {i \in 1..(Len(s) - Len(prefix) + 1) :
                    /\ SubSeq(s, i, i + Len(prefix) - 1) = prefix
                    /\ word_from(s, i + Len(prefix)) # ""}
    IN IF hits = {} THEN PyNone
       ELSE PyStr(word_from(s, (CHOOSE i \in hits : \A j \in hits : i <= j)
                               + Len(prefix)))

\* re.search(r"(\w+)" + suffix, s): group 1 of the leftmost match, or None
search_before(s, suffix) ==
    LET hits == {i \in 2..(Len(s) - Len(suffix) + 1) :
                    /\ SubSeq(s, i, i + Len(suffix) - 1) = suffix
                    /\ word_until(s, i - 1) # ""}
    IN IF hits = {} THEN PyNone
       ELSE PyStr(word_until(s, (CHOOSE i \in hits : \A j \in hits : i <= j) - 1))

\* for pattern, domain_format in UNIVERSITY_PATTERNS: the first pattern found
university_domain(company_lower) ==
    LET found == << search_after(company_lower, "university of "),
                    search_before(company_lower, " university"),
                    search_before(company_lower, " college"),
                    search_before(company_lower, " institute") >>
        hits == {k \in 1..4 : found[k] # PyNone}
    IN IF hits = {} THEN PyNone
       ELSE PyStr(found[CHOOSE k \in hits : \A j \in hits : k <= j].s \o ".edu")

\* for key, domain in self.KNOWN_DOMAINS.items(): the first key in the company
known_domain(company_lower) ==
    LET hits == {k \in 1..Len(KNOWN_DOMAINS) : Contains(company_lower, KNOWN_DOMAINS[k][1])}
    IN IF hits = {} THEN PyNone
       ELSE PyStr(KNOWN_DOMAINS[CHOOSE k \in hits : \A j \in hits : k <= j][2])

\* _get_domain: a domain, or None
_get_domain(company) ==
    IF ~Truthy(company) THEN Return(PyNone)
    ELSE IF company.t # "str" THEN Raise("AttributeError")
    ELSE LET company_lower == lower(company.s)
             words == split(company_lower)
             base == IF Len(words) = 0 THEN ""
                     ELSE only_chars(words[1], LowerLetters \cup DOMAIN Digit)
         IN IF known_domain(company_lower) # PyNone
               THEN Return(known_domain(company_lower))
            ELSE IF university_domain(company_lower) # PyNone
               THEN Return(university_domain(company_lower))
            ELSE IF Len(base) >= 3 THEN Return(PyStr(base \o ".com"))
            ELSE Return(PyNone)

\* generate_email: first.last@domain, the existing address, or ""
generate_email(name, company, existing_email) ==
    IF Truthy(existing_email) /\ existing_email.t = "str"
          /\ Contains(existing_email.s, "@")
    THEN Return(existing_email)
    ELSE LET parsed == _parse_name(name)
         IN IF ~parsed.ok THEN parsed
            ELSE IF ~Truthy(parsed.v[1]) \/ ~Truthy(parsed.v[2]) THEN Return(PyStr(""))
            ELSE LET domain == _get_domain(company)
                 IN IF ~domain.ok THEN domain
                    ELSE IF ~Truthy(domain.v) THEN Return(PyStr(""))
                    ELSE Return(PyStr(parsed.v[1].s \o "." \o parsed.v[2].s
                                        \o "@" \o domain.v.s))

\* enrich_leads generating an address for every lead, the ones that already
\* hold one included.
RECURSIVE enrich_leads_overwriting(_, _, _)
enrich_leads_overwriting(h, ls, i) ==
    IF i > Len(ls) THEN [ok |-> TRUE, heap |-> h]
    ELSE LET lead == h[ls[i]]
             email == generate_email(get(lead, "name", PyStr("")),
                                     get(lead, "company", PyStr("")),
                                     PyStr(""))
         IN IF ~email.ok THEN [ok |-> FALSE, heap |-> h]
            ELSE IF ~Truthy(email.v) THEN enrich_leads_overwriting(h, ls, i + 1)
            ELSE enrich_leads_overwriting(
                     [h EXCEPT ![ls[i]] = put(@, "email", email.v)], ls, i + 1)

\* enrich_leads from position i on: a lead without email gets the generated
\* address when there is one; stops at the first lead whose address raises.
RECURSIVE enrich_leads(_, _, _)
enrich_leads(h, ls, i) ==
    IF i > Len(ls) THEN [ok |-> TRUE, heap |-> h]
    ELSE LET lead == h[ls[i]]
         IN IF Truthy(get(lead, "email", PyNone)) THEN enrich_leads(h, ls, i + 1)
            ELSE LET email == generate_email(get(lead, "name", PyStr("")),
                                             get(lead, "company", PyStr("")),
                                             PyStr(""))
                 IN IF ~email.ok THEN [ok |-> FALSE, heap |-> h]
                    ELSE IF ~Truthy(email.v) THEN enrich_leads(h, ls, i + 1)
                    ELSE enrich_leads([h EXCEPT ![ls[i]] = put(@, "email", email.v)],
                                      ls, i + 1)

(***************************************************************************)
(* main.py: one run of the pipeline                                        *)
(***************************************************************************)
\* Leads as the collectors build them from what the sources send.
PubmedLead ==
    [name |-> PyStr("Maria Keller"), title |-> PyStr("Researcher / Author"),
     company |-> PyStr("University of Basel"), person_location |-> PyStr("Basel"),
     company_hq |-> PyStr("Switzerland"), funding_stage |-> PyStr("Unknown"),
     publication_topic |-> PyStr("Hepatotoxicity in 3D liver spheroids"),
     publication_year |-> PyStr("2025"), uses_invitro |-> PyStr("Yes"),
     email |-> PyStr(""), work_mode |-> PyStr("Unknown"),
     company_in_hub |-> PyStr(""), source |-> PyStr("PubMed")]

\* An author whose affiliation text held an e-mail address.
PubmedWithEmail ==
    [name |-> PyStr("Li Wei"), title |-> PyStr("Researcher / Author"),
     company |-> PyStr("Peking University"), person_location |-> PyStr("Beijing"),
     company_hq |-> PyStr("China. weili@pku.edu.cn"),
     funding_stage |-> PyStr("Unknown"),
     publication_topic |-> PyStr("Cell Culture Methods"),
     publication_year |-> PyStr("2024"), uses_invitro |-> PyStr("No"),
     email |-> PyStr("weili@pku.edu.cn"), work_mode |-> PyStr("Unknown"),
     company_in_hub |-> PyStr(""), source |-> PyStr("PubMed")]

\* The author of PubmedLead again, as Europe PMC spells name and affiliation.
EpmcDuplicate ==
    [name |-> PyStr("MARIA KELLER"), title |-> PyStr("Researcher / Author"),
     company |-> PyStr("University Of Basel"), person_location |-> PyStr("Basel"),
     company_hq |-> PyStr("Switzerland"), funding_stage |-> PyStr("Unknown"),
     publication_topic |-> PyStr("Liver Fibrosis"),
     publication_year |-> PyStr("2023"), uses_invitro |-> PyStr("No"),
     email |-> PyStr(""), work_mode |-> PyStr("Unknown"),
     company_in_hub |-> PyStr(""), source |-> PyStr("Europe PMC")]

\* An article whose JSON title is an array: article.get("title", "")[:200]
\* is then a list.
EpmcListTitle ==
    [name |-> PyStr("Omar Haddad"), title |-> PyStr("Researcher / Author"),
     company |-> PyStr("Unknown"), person_location |-> PyStr(""),
     company_hq |-> PyStr(""), funding_stage |-> PyStr("Unknown"),
     publication_topic |-> PyList(<<PyStr("Liver organoids")>>),
     publication_year |-> PyStr("2025"), uses_invitro |-> PyStr("Yes"),
     email |-> PyStr(""), work_mode |-> PyStr("Unknown"),
     company_in_hub |-> PyStr(""), source |-> PyStr("Europe PMC")]

\* A grant whose org_name is null: grant.get("org_name", "Unknown") is None.
NihNoOrg ==
    [name |-> PyStr("Kim Sato"), title |-> PyStr("Principal Investigator"),
     company |-> PyNone, person_location |-> PyStr(""),
     company_hq |-> PyStr("USA"), funding_stage |-> PyStr("NIH Grant"),
     publication_topic |-> PyStr("DILI Prediction"),
     publication_year |-> PyStr("2024"), uses_invitro |-> PyStr("No"),
     email |-> PyStr(""), work_mode |-> PyStr("Unknown"),
     company_in_hub |-> PyStr(""), source |-> PyStr("NIH RePORTER")]

ScholarLead ==
    [name |-> PyStr("Dr. Ana Lima"), title |-> PyStr("Researcher / Author"),
     company |-> PyStr("Toxicological Sciences"), person_location |-> PyStr(""),
     company_hq |-> PyStr(""), funding_stage |-> PyStr("Unknown"),
     publication_topic |-> PyStr("Predicting DILI with organ-on-chip"),
     publication_year |-> PyStr("2024"), uses_invitro |-> PyStr("Yes"),
     email |-> PyStr(""), work_mode |-> PyStr("Unknown"),
     company_in_hub |-> PyStr(""), source |-> PyStr("Google Scholar")]

\* What crawler.crawl(...) can do in each wrapper: raise, or return a list.
Returns(lists) == {[raised |-> FALSE, leads |-> l] : l \in lists}
Raises == {[raised |-> TRUE, leads |-> <<>>]}

PubmedOutcomes == Raises \cup Returns({<<>>, <<PubmedLead, PubmedWithEmail>>})
NihOutcomes == Raises \cup Returns({<<>>, <<NihLead>>, <<NihNoOrg>>})
EuropePmcOutcomes == Raises \cup Returns({<<>>, <<EpmcDuplicate>>, <<EpmcListTitle>>})
ClinicalTrialsOutcomes == Raises \cup Returns({<<>>, <<TrialLead>>})
GoogleScholarOutcomes == Raises \cup Returns({<<>>, <<ScholarLead>>})

\* The dicts of the list ls, in order: what a function handed ls receives.
rows_of(h, ls) == [i \in 1..Len(ls) |-> h[ls[i]]]

\* all_leads.extend(new): the new dicts become objects, the list holds them.
extend_heap(h, new) == h \o new
extend_list(h, ls, new) == ls \o [i \in 1..Len(new) |-> Len(h) + i]

Step(step, raised, rows) == [step |-> step, raised |-> raised, rows |-> rows]

\* remove_duplicates with the key built from name and company as they are
\* written, without .lower().
RECURSIVE unique_leads_case_sensitive(_, _, _, _, _)
unique_leads_case_sensitive(h, ls, i, seen, unique) ==
    IF i > Len(ls) THEN Return(unique)
    ELSE LET name == get(h[ls[i]], "name", PyStr(""))
             company == get(h[ls[i]], "company", PyStr(""))
         IN IF name.t # "str" \/ company.t # "str" THEN Raise("AttributeError")
            ELSE LET key == <<name.s, company.s>>
                 IN IF key \in seen
                    THEN unique_leads_case_sensitive(h, ls, i + 1, seen, unique)
                    ELSE unique_leads_case_sensitive(h, ls, i + 1,
                                                     seen \cup {key},
                                                     Append(unique, ls[i]))

\* remove_duplicates from position i on: unique_leads, or the AttributeError
\* of .lower() on a name or company that is not a str.
RECURSIVE unique_leads(_, _, _, _, _)
unique_leads(h, ls, i, seen, unique) ==
    IF i > Len(ls) THEN Return(unique)
    ELSE LET name == get(h[ls[i]], "name", PyStr(""))
             company == get(h[ls[i]], "company", PyStr(""))
         IN IF name.t # "str" \/ company.t # "str" THEN Raise("AttributeError")
            ELSE LET key == <<lower(name.s), lower(company.s)>>
                 IN IF key \in seen THEN unique_leads(h, ls, i + 1, seen, unique)
                    ELSE unique_leads(h, ls, i + 1, seen \cup {key},
                                      Append(unique, ls[i]))

\* The columns save_to_csv and save_to_excel write, in order.
columns ==
    <<"name", "title", "company", "person_location", "company_hq",
      "funding_stage", "publication_topic", "publication_year",
      "uses_invitro", "email", "work_mode", "company_in_hub",
      "probability_score", "rank">>

\* pd.DataFrame(leads) with the missing columns added as "" and the columns
\* reordered: a key that only some dicts hold is None (NaN) in the others.
data_frame(rows) ==
    [i \in 1..Len(rows) |->
        [c \in {columns[k] : k \in 1..Len(columns)} |->
            IF c \in DOMAIN rows[i] THEN rows[i][c]
            ELSE IF \E j \in 1..Len(rows) : c \in DOMAIN rows[j] THEN PyNone
            ELSE PyStr("")]]

InitMain ==
    /\ current_year \in CurrentYears
    /\ heap = <<>>
    /\ leads = <<>>
    /\ entry = [leads |-> <<>>, heap |-> <<>>]
    /\ pc = "crawl_pubmed"
    /\ result = <<>>
    /\ call = NoCall
    /\ trace = <<>>

main_frame == UNCHANGED <<current_year, entry, result, call>>

\* crawl_pubmed(...) and all_leads.extend: an exception of the crawler gives [].
crawl_pubmed ==
    /\ pc = "crawl_pubmed"
    /\ \E outcome \in PubmedOutcomes :
          /\ heap' = extend_heap(heap, outcome.leads)
          /\ leads' = extend_list(heap, leads, outcome.leads)
          /\ trace' = Append(trace, Step("crawl_pubmed", outcome.raised, outcome.leads))
    /\ pc' = "crawl_nih"
    /\ main_frame

\* crawl_nih without its try / except: an exception of the crawler ends main.
crawl_nih_uncaught ==
    /\ pc = "crawl_nih"
    /\ \E outcome \in NihOutcomes :
          /\ heap' = extend_heap(heap, outcome.leads)
          /\ leads' = extend_list(heap, leads, outcome.leads)
          /\ trace' = Append(trace, Step("crawl_nih", outcome.raised, outcome.leads))
          /\ pc' = IF outcome.raised THEN "crashed" ELSE "crawl_europe_pmc"
    /\ main_frame

\* crawl_nih(...) and all_leads.extend
crawl_nih ==
    /\ pc = "crawl_nih"
    /\ \E outcome \in NihOutcomes :
          /\ heap' = extend_heap(heap, outcome.leads)
          /\ leads' = extend_list(heap, leads, outcome.leads)
          /\ trace' = Append(trace, Step("crawl_nih", outcome.raised, outcome.leads))
    /\ pc' = "crawl_europe_pmc"
    /\ main_frame

\* crawl_europe_pmc(...) and all_leads.extend
crawl_europe_pmc ==
    /\ pc = "crawl_europe_pmc"
    /\ \E outcome \in EuropePmcOutcomes :
          /\ heap' = extend_heap(heap, outcome.leads)
          /\ leads' = extend_list(heap, leads, outcome.leads)
          /\ trace' = Append(trace, Step("crawl_europe_pmc", outcome.raised, outcome.leads))
    /\ pc' = "crawl_clinical_trials"
    /\ main_frame

\* crawl_clinical_trials(...) and all_leads.extend
crawl_clinical_trials ==
    /\ pc = "crawl_clinical_trials"
    /\ \E outcome \in ClinicalTrialsOutcomes :
          /\ heap' = extend_heap(heap, outcome.leads)
          /\ leads' = extend_list(heap, leads, outcome.leads)
          /\ trace' = Append(trace, Step("crawl_clinical_trials", outcome.raised, outcome.leads))
    /\ pc' = "crawl_google_scholar"
    /\ main_frame

\* if not args.skip_scholar: crawl_google_scholar(...) and all_leads.extend
crawl_google_scholar ==
    /\ pc = "crawl_google_scholar"
    /\ \E outcome \in GoogleScholarOutcomes :
          /\ heap' = extend_heap(heap, outcome.leads)
          /\ leads' = extend_list(heap, leads, outcome.leads)
          /\ trace' = Append(trace, Step("crawl_google_scholar", outcome.raised, outcome.leads))
    /\ pc' = "collected"
    /\ main_frame

\* else: the run was started with --skip-scholar.
skip_scholar ==
    /\ pc = "crawl_google_scholar"
    /\ trace' = Append(trace, Step("skip_scholar", FALSE, <<>>))
    /\ pc' = "collected"
    /\ UNCHANGED <<heap, leads>>
    /\ main_frame

\* if not all_leads: return
no_leads_found ==
    /\ pc = "collected"
    /\ leads = <<>>
    /\ trace' = Append(trace, Step("no_leads_found", FALSE, <<>>))
    /\ pc' = "done"
    /\ UNCHANGED <<heap, leads>>
    /\ main_frame

\* main calling score_leads right after remove_duplicates, before the e-mail
\* enrichment.
remove_duplicates_then_score ==
    /\ pc = "collected"
    /\ leads # <<>>
    /\ \E unique \in {unique_leads(heap, leads, 1, {}, <<>>)} :
          /\ leads' = IF unique.ok THEN unique.v ELSE leads
          /\ pc' = IF unique.ok THEN "score_leads" ELSE "crashed"
          /\ trace' = Append(trace, Step("remove_duplicates", ~unique.ok,
                                         rows_of(heap, leads)))
    /\ UNCHANGED heap
    /\ main_frame

\* all_leads = remove_duplicates(all_leads); its exception is not caught.
remove_duplicates ==
    /\ pc = "collected"
    /\ leads # <<>>
    /\ \E unique \in {unique_leads(heap, leads, 1, {}, <<>>)} :
          /\ leads' = IF unique.ok THEN unique.v ELSE leads
          /\ pc' = IF unique.ok THEN "enrich_emails" ELSE "crashed"
          /\ trace' = Append(trace, Step("remove_duplicates", ~unique.ok,
                                         rows_of(heap, leads)))
    /\ UNCHANGED heap
    /\ main_frame

\* all_leads = enrich_emails(all_leads): try enrich_leads, except return leads
enrich_emails ==
    /\ pc = "enrich_emails"
    /\ \E enriched \in {enrich_leads(heap, leads, 1)} :
          /\ heap' = enriched.heap
          /\ trace' = Append(trace, Step("enrich_emails", ~enriched.ok,
                                         rows_of(heap, leads)))
    /\ pc' = "score_leads"
    /\ UNCHANGED leads
    /\ main_frame

\* all_leads = score_leads(all_leads): try ProbabilityEngine().score_leads,
\* except return leads, the list as the engine left it.
score_leads ==
    /\ pc = "score_leads"
    /\ \E scored \in {score_loop(heap, leads, 1, current_year)} :
          /\ IF ~scored.ok
             THEN /\ heap' = scored.heap
                  /\ UNCHANGED leads
             ELSE \E sorted \in {sort_reverse(scored.heap, leads)} :
                  \E ranked \in {rank_loop(scored.heap, sorted, 1)} :
                     /\ heap' = hub_loop(ranked, sorted, 1)
                     /\ leads' = sorted
          /\ trace' = Append(trace, Step("score_leads", ~scored.ok,
                                         rows_of(heap, leads)))
    /\ pc' = "save_to_csv"
    /\ main_frame

\* csv_path = save_to_csv(all_leads, filename): the table is written, or
\* writing raises and ends the run.
save_to_csv ==
    /\ pc = "save_to_csv"
    /\ \E raised \in BOOLEAN :
          /\ trace' = Append(trace, [step |-> "save_to_csv", raised |-> raised,
                                     rows |-> rows_of(heap, leads),
                                     table |-> IF raised THEN <<>>
                                               ELSE data_frame(rows_of(heap, leads))])
          /\ pc' = IF raised THEN "crashed" ELSE "save_to_excel"
    /\ UNCHANGED <<heap, leads>>
    /\ main_frame

\* excel_path = save_to_excel(all_leads, filename)
save_to_excel ==
    /\ pc = "save_to_excel"
    /\ \E raised \in BOOLEAN :
          /\ trace' = Append(trace, [step |-> "save_to_excel", raised |-> raised,
                                     rows |-> rows_of(heap, leads),
                                     table |-> IF raised THEN <<>>
                                               ELSE data_frame(rows_of(heap, leads))])
          /\ pc' = IF raised THEN "crashed" ELSE "print_summary"
    /\ UNCHANGED <<heap, leads>>
    /\ main_frame

\* print_summary(all_leads): reads the leads, changes nothing.
print_summary ==
    /\ pc = "print_summary"
    /\ trace' = Append(trace, Step("print_summary", FALSE, rows_of(heap, leads)))
    /\ pc' = "done"
    /\ UNCHANGED <<heap, leads>>
    /\ main_frame

NextMain ==
    \/ crawl_pubmed
    \/ crawl_nih
    \/ crawl_europe_pmc
    \/ crawl_clinical_trials
    \/ crawl_google_scholar
    \/ skip_scholar
    \/ no_leads_found
    \/ remove_duplicates
    \/ enrich_emails
    \/ score_leads
    \/ save_to_csv
    \/ save_to_excel
    \/ print_summary

SpecMain == InitMain /\ [][NextMain]_vars

(***************************************************************************)
(* Properties of score_leads, checked under Spec                           *)
(***************************************************************************)
score_of(id) == heap[id]["probability_score"].n
rank_of(id) == heap[id]["rank"].n

\* The 1-based position of the lead id in the list ls.
position(ls, id) == CHOOSE i \in 1..Len(ls) : ls[i] = id

Count(ls, id) == Cardinality({i \in 1..Len(ls) : ls[i] = id})

\* C1: after score_leads has run on a batch, every lead of the batch holds a
\* probability_score that is an integer between 0 and 100, whatever its fields.
C1_ScoreInRange ==
    pc = "returned" =>
        \A i \in 1..Len(result) :
            /\ "probability_score" \in DOMAIN heap[result[i]]
            /\ heap[result[i]]["probability_score"].t = "int"
            /\ score_of(result[i]) \in 0..100

\* A batch was scored in which one lead's components sum to 115 and another's to 0.
C1_Witness ==
    /\ pc = "returned"
    /\ \E i, j \in 1..Len(result) :
          /\ heap[result[i]]["name"] = PyStr("Dr. John Smith")
          /\ score_of(result[i]) = 100
          /\ score_of(result[j]) = 0

\* C2: in the list score_leads returns for a batch of N leads, the lead at
\* position k has rank k, so the ranks are exactly 1..N, each held once.
C2_RankIsPosition ==
    pc = "returned" =>
        /\ Len(result) = Len(entry.leads)
        /\ \A k \in 1..Len(result) :
              /\ "rank" \in DOMAIN heap[result[k]]
              /\ heap[result[k]]["rank"] = PyInt(k)
        /\ {rank_of(result[k]) : k \in 1..Len(result)} = 1..Len(entry.leads)

\* Three leads were ranked, two of them with the same score.
C2_Witness ==
    /\ pc = "returned"
    /\ Len(result) = 3
    /\ score_of(result[1]) = score_of(result[2])
    /\ rank_of(result[1]) # rank_of(result[2])

\* C3: in the output of score_leads, a lead with a smaller rank never has a
\* smaller probability_score than a lead with a larger rank.
C3_SortedByScore ==
    pc = "returned" =>
        \A i, j \in 1..Len(result) :
            rank_of(result[i]) < rank_of(result[j]) =>
                score_of(result[i]) >= score_of(result[j])

\* The sort moved a lead: the batch came in an order that was not by score.
C3_Witness ==
    /\ pc = "returned"
    /\ result # entry.leads
    /\ \E i, j \in 1..Len(result) : score_of(result[i]) > score_of(result[j])

\* C4: two leads with the same probability_score keep the relative order they
\* had in the input list, and the earlier one has the smaller rank.
C4_StableOnTies ==
    pc = "returned" =>
        \A a, b \in 1..Len(entry.leads) :
            (a < b /\ score_of(entry.leads[a]) = score_of(entry.leads[b])) =>
                /\ position(result, entry.leads[a]) < position(result, entry.leads[b])
                /\ rank_of(entry.leads[a]) < rank_of(entry.leads[b])

\* Two leads tied while a higher-scoring lead that came after the first of
\* them was moved in front of both.
C4_Witness ==
    /\ pc = "returned"
    /\ Len(entry.leads) = 3
    /\ score_of(entry.leads[1]) = score_of(entry.leads[3])
    /\ score_of(entry.leads[2]) > score_of(entry.leads[1])
    /\ result = <<entry.leads[2], entry.leads[1], entry.leads[3]>>

\* C5: the list score_leads returns holds exactly the lead objects of the
\* input list, each as many times as in the input: none dropped, none added.
C5_SameLeads ==
    pc = "returned" =>
        /\ Len(result) = Len(entry.leads)
        /\ \A id \in DOMAIN entry.heap : Count(result, id) = Count(entry.leads, id)
        /\ \A i \in 1..Len(result) : result[i] \in DOMAIN entry.heap

\* A batch of three leads, two of them with the same field values, was scored.
C5_Witness ==
    /\ pc = "returned"
    /\ Len(result) = 3
    /\ \E a, b \in DOMAIN entry.heap : a # b /\ entry.heap[a] = entry.heap[b]

\* The location component of a lead, asked of _score_location.
location_of(lead) ==
    _score_location(get(lead, "person_location", PyStr("")),
                    get(lead, "company_hq", PyStr("")))

\* C11: after score_leads every lead, whatever its score, holds a
\* company_in_hub that is "TRUE" exactly when its location component is 10
\* and "FALSE" exactly when it is 0; Boston / "Cambridge, MA" gives 10 and
\* "TRUE", Austin / "Austin, TX" gives 0 and "FALSE".
C11_HubFlagMatchesLocation ==
    /\ pc = "returned" =>
          \A i \in 1..Len(result) :
              LET lead == heap[result[i]]
                  loc == location_of(lead)
              IN /\ "company_in_hub" \in DOMAIN lead
                 /\ loc.ok /\ loc.v \in {0, 10}
                 /\ lead["company_in_hub"] = PyStr("TRUE") <=> loc.v = 10
                 /\ lead["company_in_hub"] = PyStr("FALSE") <=> loc.v = 0
                 /\ (get(lead, "person_location", PyNone) = PyStr("Boston")
                       /\ get(lead, "company_hq", PyNone) = PyStr("Cambridge, MA"))
                    => (loc.v = 10 /\ lead["company_in_hub"] = PyStr("TRUE"))
    /\ LET austin == [person_location |-> PyStr("Austin"),
                      company_hq |-> PyStr("Austin, TX")]
       IN location_of(austin) = Return(0) /\ hub_flag(austin) = PyStr("FALSE")

\* A batch was flagged in which a lead scored 100 sits in a hub and a lead
\* scored 0 does not.
C11_Witness ==
    /\ pc = "returned"
    /\ \E i, j \in 1..Len(result) :
          /\ score_of(result[i]) = 100
          /\ heap[result[i]]["company_in_hub"] = PyStr("TRUE")
          /\ score_of(result[j]) = 0
          /\ heap[result[j]]["company_in_hub"] = PyStr("FALSE")

\* A scored field holding a value that is neither a str nor None.
Malformed(lead) ==
    {k \in DOMAIN lead \cap {"title", "funding_stage", "publication_topic"} :
        lead[k].t \notin {"str", "none"}}

\* C14: the engine never raises on a malformed field value: with a number
\* in title, funding_stage or publication_topic score_leads still completes,
\* and the lead is scored as if the malformed field were empty, that field's
\* component contributing 0 and the others what they would have.
C14_NeverRaisesOnMalformed ==
    pc # "idle" =>
        /\ pc = "returned"
        /\ \A i \in 1..Len(result) :
              LET lead == heap[result[i]]
              IN calculate_score(Without(lead, Malformed(lead), "empty"), current_year)
                    = Return(score_of(result[i]))

\* The dict rec holds every field of base with base's value.
IsLead(rec, base) ==
    /\ DOMAIN base \subseteq DOMAIN rec
    /\ \A k \in DOMAIN base : rec[k] = base[k]

\* C16: the batch of the two test leads, the Director of Toxicology with a
\* 2024 DILI publication and the Junior Scientist in Texas, in either input
\* order, comes back with the first scored 100 at rank 1 and the second
\* scored 8 at rank 2.
C16_TestBatch ==
    (/\ pc = "returned"
     /\ Len(entry.leads) = 2
     /\ \E a, b \in 1..2 : /\ IsLead(entry.heap[entry.leads[a]], JohnSmith)
                           /\ IsLead(entry.heap[entry.leads[b]], JaneDoe)) =>
        /\ Len(result) = 2
        /\ IsLead(heap[result[1]], JohnSmith)
        /\ heap[result[1]]["probability_score"] = PyInt(100)
        /\ heap[result[1]]["rank"] = PyInt(1)
        /\ IsLead(heap[result[2]], JaneDoe)
        /\ heap[result[2]]["probability_score"] = PyInt(8)
        /\ heap[result[2]]["rank"] = PyInt(2)

\* The two test leads were scored for the first time from the order Jane Doe,
\* John Smith, and John Smith was moved to the front.
C16_Witness ==
    /\ pc = "returned"
    /\ Len(entry.leads) = 2
    /\ entry.heap[entry.leads[1]] = JaneDoe
    /\ entry.heap[entry.leads[2]] = JohnSmith
    /\ result = <<entry.leads[2], entry.leads[1]>>
    /\ score_of(result[1]) = 100 /\ score_of(result[2]) = 8

\* C17: score_leads is idempotent for a fixed current_year: run again on the
\* list it returned, it returns the same order and leaves every lead with the
\* same probability_score, rank and company_in_hub.
C17_Idempotent ==
    [][pc = "returned" =>
          /\ pc' = "returned"
          /\ result' = result
          /\ leads' = leads
          /\ \A id \in DOMAIN heap :
                \A k \in {"probability_score", "rank", "company_in_hub"} :
                    heap'[id][k] = heap[id][k]]_vars

\* score_leads ran on its own output, a batch of three with two tied leads.
C17_Witness ==
    /\ pc = "returned"
    /\ Len(result) = 3
    /\ entry.leads = result
    /\ \A id \in DOMAIN entry.heap : "rank" \in DOMAIN entry.heap[id]
    /\ score_of(result[2]) = score_of(result[3])
    /\ score_of(result[1]) > score_of(result[2])

\* C18: score_leads writes only probability_score, rank and company_in_hub:
\* after a call, completed or not, every lead has every other field it had
\* before, fields unknown to the engine included, with the same value, and no
\* further field.
C18_WritesThreeFields ==
    pc \in {"returned", "raised"} =>
        /\ DOMAIN heap = DOMAIN entry.heap
        /\ \A id \in DOMAIN entry.heap :
              LET written == {"probability_score", "rank", "company_in_hub"}
              IN /\ DOMAIN heap[id] \subseteq DOMAIN entry.heap[id] \cup written
                 /\ \A k \in DOMAIN entry.heap[id] \ written :
                       k \in DOMAIN heap[id] /\ heap[id][k] = entry.heap[id][k]

\* A lead with the unknown field notes was scored, ranked and flagged for the
\* first time, and still holds notes.
C18_Witness ==
    /\ pc = "returned"
    /\ \E id \in DOMAIN heap :
          /\ "probability_score" \notin DOMAIN entry.heap[id]
          /\ entry.heap[id]["name"] = PyStr("Amy Wu")
          /\ heap[id]["notes"] = PyInt(3)
          /\ {"probability_score", "rank", "company_in_hub"} \subseteq DOMAIN heap[id]

\* C19 as stated: score_leads returns the sorted leads as a new sequence, and
\* after the call the caller's input list still holds its leads in the order
\* they had before the call.
C19_InputOrderKept ==
    pc = "returned" => leads = entry.leads

\* C19, amended: score_leads sorts the caller's list in place and returns that
\* list: after a completed call the caller's list holds the leads in the
\* returned order, which is not the order before the call whenever a lead
\* stood before one with a higher score; a call that raises leaves the order
\* of the caller's list as it was.
C19_SortedInPlace ==
    /\ pc = "returned" =>
          /\ leads = result
          /\ (\E a, b \in 1..Len(entry.leads) :
                  a < b /\ score_of(entry.leads[a]) < score_of(entry.leads[b]))
             => leads # entry.leads
    /\ pc = "raised" => leads = entry.leads

\* A call returned after moving a lead of the caller's list to the front.
C19_Witness ==
    /\ pc = "returned"
    /\ Len(leads) = 3
    /\ leads = result
    /\ leads[1] = entry.leads[3]
    /\ score_of(leads[1]) > score_of(leads[2])

\* Two leads agree on the seven fields the score is computed from: each field
\* is absent from both or present in both with the same value.
Agree(a, b) ==
    \A k \in ScoredFields :
        /\ k \in DOMAIN a <=> k \in DOMAIN b
        /\ k \in DOMAIN a => a[k] = b[k]

\* C25: the score of a lead depends only on its title, funding_stage,
\* uses_invitro, publication_topic, publication_year, person_location and
\* company_hq (and on current_year): two leads of a batch that agree on these
\* seven fields come out with the same probability_score and the same
\* company_in_hub, whatever their name, company, email and source and
\* whatever probability_score, rank and company_in_hub they held before.
C25_ScoreDependsOnSevenFields ==
    pc = "returned" =>
        \A a, b \in DOMAIN heap :
            Agree(entry.heap[a], entry.heap[b]) =>
                /\ heap[a]["probability_score"] = heap[b]["probability_score"]
                /\ heap[a]["company_in_hub"] = heap[b]["company_in_hub"]

\* score_leads returned a batch with two leads that agree on the seven
\* fields and differ in name, company and email, one of them holding the
\* score, rank and hub flag of an earlier run.
C25_Witness ==
    /\ pc = "returned"
    /\ \E a, b \in DOMAIN heap :
          /\ Agree(entry.heap[a], entry.heap[b])
          /\ entry.heap[a]["name"] # entry.heap[b]["name"]
          /\ entry.heap[a]["company"] # entry.heap[b]["company"]
          /\ "email" \in DOMAIN entry.heap[a] /\ "email" \notin DOMAIN entry.heap[b]
          /\ "probability_score" \notin DOMAIN entry.heap[b]
          /\ entry.heap[a]["probability_score"] = PyInt(97)
          /\ entry.heap[a]["company_in_hub"] = PyStr("TRUE")
          /\ score_of(a) = 8 /\ score_of(b) = 8
          /\ heap[a]["company_in_hub"] = PyStr("FALSE")
          /\ heap[b]["company_in_hub"] = PyStr("FALSE")

(***************************************************************************)
(* Properties of the scoring methods, checked under SpecFn                 *)
(***************************************************************************)
\* s contains one of the keywords kws as a substring, whatever the case.
Mentions(v, kws) == v.t = "str" /\ ContainsAny(lower(v.s), kws)

Value(r) == IF r.ok THEN r.v ELSE -1

\* The sum of the five component scores of a lead, each asked of its method.
ComponentSum(lead, cy) ==
    Value(_score_title(get(lead, "title", PyStr("")))) +
    Value(_score_funding(get(lead, "funding_stage", PyStr("")))) +
    Value(_score_technology(get(lead, "uses_invitro", PyStr("No")),
                            get(lead, "publication_topic", PyStr("")))) +
    Value(_score_location(get(lead, "person_location", PyStr("")),
                          get(lead, "company_hq", PyStr("")))) +
    Value(_score_publication(get(lead, "publication_topic", PyStr("")),
                             get(lead, "publication_year", PyStr("")), cy))

\* C6: calculate_score returns 100 when the five components sum to more than
\* 100 and their sum otherwise.
C6_SumCappedAt100 ==
    (call.fn = "calculate_score" /\ call.out.ok) =>
        LET sum == ComponentSum(call.args[1], current_year)
        IN call.out.v = IF sum > 100 THEN 100 ELSE sum

\* calculate_score was called on a lead whose components sum to 115.
C6_Witness ==
    /\ call.fn = "calculate_score"
    /\ call.out = Return(100)
    /\ ComponentSum(call.args[1], current_year) = 115

\* C7: the title component is 30 with a seniority and a relevance keyword in
\* the title, 18 with a relevance keyword only, 9 with a seniority keyword
\* only, and 0 with neither or with an empty or missing title.
C7_TitleTable ==
    (call.fn = "_score_title" /\ call.args[1].t \in {"str", "none"}) =>
        LET title == call.args[1]
            senior == Mentions(title, title_keywords)
            relevant == Mentions(title, role_keywords)
        IN /\ call.out = Return(IF senior /\ relevant THEN 30
                                ELSE IF relevant THEN 18
                                ELSE IF senior THEN 9
                                ELSE 0)
           /\ title = PyStr("Director of Toxicology") => call.out = Return(30)

\* "Director of Toxicology" was scored 30.
C7_Witness ==
    /\ call.fn = "_score_title"
    /\ call.args = <<PyStr("Director of Toxicology")>>
    /\ call.out = Return(30)

\* C8: the funding component is that of the first tier that matches, 20, 16
\* or 8, and 0 when none does; a value matching several tiers gets the
\* score of the highest of them.
C8_FundingFirstTier ==
    (call.fn = "_score_funding" /\ call.args[1].t \in {"str", "none"}) =>
        LET funding_stage == call.args[1]
        IN /\ call.out =
                Return(IF Mentions(funding_stage, {"series a", "series b", "series c"})
                          THEN 20
                       ELSE IF Mentions(funding_stage,
                                        {"grant", "nih", "funded", "clinical trial"})
                          THEN 16
                       ELSE IF Mentions(funding_stage, {"seed", "private"}) THEN 8
                       ELSE 0)
           /\ funding_stage = PyStr("Series B") => call.out = Return(20)
           /\ funding_stage = PyStr("NIH Grant") => call.out = Return(16)
           /\ funding_stage = PyStr("Seed grant") => call.out = Return(16)
           /\ funding_stage = PyStr("Series A, NIH funded") => call.out = Return(20)

\* "Seed grant", which matches tiers 2 and 3, was scored 16.
C8_Witness ==
    /\ call.fn = "_score_funding"
    /\ call.args = <<PyStr("Seed grant")>>
    /\ call.out = Return(16)

\* C9: the technology component is 15 when uses_invitro is "yes" in any case
\* or the topic contains a technology keyword, also when both hold, and 0
\* otherwise.
C9_TechnologyEitherSignal ==
    (call.fn = "_score_technology" /\ call.args[2].t \in {"str", "none"}) =>
        LET uses_invitro == call.args[1]
            topic == call.args[2]
            flagged == uses_invitro.t = "str" /\ lower(uses_invitro.s) = "yes"
            in_topic == Mentions(topic, {"3d", "in vitro", "organ-on-chip",
                                         "spheroid", "organoid"})
        IN /\ call.out = Return(IF flagged \/ in_topic THEN 15 ELSE 0)
           /\ (uses_invitro \in {PyStr("No"), PyStr("Liver Focus")} /\ in_topic)
              => call.out = Return(15)
           /\ (uses_invitro = PyStr("Liver Focus") /\ ~in_topic) => call.out = Return(0)

\* A "Yes" flag with a topic that matches too was scored 15.
C9_Witness ==
    /\ call.fn = "_score_technology"
    /\ call.args = <<PyStr("Yes"), PyStr("3D Liver Spheroid Safety Study")>>
    /\ call.out = Return(15)

\* C10: the publication component is 40 for a recent year and a DILI keyword
\* in the topic, else 20 for a recent year and a general keyword, else 10 for
\* a DILI or general keyword, else 0; recent means year >= current_year - 2.
C10_PublicationTable ==
    (call.fn = "_score_publication" /\ call.args[1].t \in {"str", "none"}) =>
        LET topic == call.args[1]
            year == call.args[2]
            recent == pub_year(year) >= current_year - 2
            dili == Mentions(topic, dili_keywords)
            general == Mentions(topic, {"liver", "hepat", "toxicol"})
        IN /\ call.out = Return(IF recent /\ dili THEN 40
                                ELSE IF recent /\ general THEN 20
                                ELSE IF dili \/ general THEN 10
                                ELSE 0)
           /\ (current_year = 2025 /\ year = PyStr("2024")
                 /\ topic = PyStr("Drug-Induced Liver Injury Models"))
              => call.out = Return(40)

\* A DILI topic dated current_year - 2, the oldest recent year, was scored 40.
C10_Witness ==
    /\ call.fn = "_score_publication"
    /\ call.args = <<PyStr("Drug-Induced Liver Injury Models"), PyStr("2023")>>
    /\ current_year = 2025
    /\ call.out = Return(40)

\* A publication_year that is None, blank, or a str with a character no
\* integer literal has.
Unparseable(year) ==
    \/ year = PyNone
    \/ /\ year.t = "str"
       /\ \/ strip(year.s) = ""
          \/ \E i \in 1..Len(year.s) :
                LET c == SubSeq(year.s, i, i)
                IN ~(c \in DOMAIN Digit \/ IsSpace(c) \/ c \in {"+", "-", "_"})

\* C12: a blank, missing or non-numeric publication_year raises no error and
\* counts as year 0, never recent: the publication component is 10 when the
\* topic has a DILI or general keyword and 0 otherwise, never 20 or 40.
C12_UnparsedYearNotRecent ==
    /\ (call.fn = "_score_publication" /\ call.args[1].t \in {"str", "none"}
          /\ Unparseable(call.args[2])) =>
            /\ call.out = Return(IF Mentions(call.args[1],
                                             dili_keywords \cup {"liver", "hepat", "toxicol"})
                                 THEN 10 ELSE 0)
            /\ pub_year(call.args[2]) = 0
    /\ (call.fn = "calculate_score" /\ call.out.ok
          /\ Unparseable(get(call.args[1], "publication_year", PyStr("")))) =>
            LET lead == call.args[1]
                topic == get(lead, "publication_topic", PyStr(""))
                others == Value(_score_title(get(lead, "title", PyStr("")))) +
                          Value(_score_funding(get(lead, "funding_stage", PyStr("")))) +
                          Value(_score_technology(get(lead, "uses_invitro", PyStr("No")),
                                                  topic)) +
                          Value(location_of(lead))
            IN call.out.v =
                  Min(100, others + IF Mentions(topic, dili_keywords
                                                  \cup {"liver", "hepat", "toxicol"})
                                    THEN 10 ELSE 0)

\* A DILI topic with the year "2024.0", which int() rejects, was scored 10.
C12_Witness ==
    /\ call.fn = "_score_publication"
    /\ call.args = <<PyStr("Drug-Induced Liver Injury Models"), PyStr("2024.0")>>
    /\ call.out = Return(10)

\* C13 as stated: score_leads raises no error on a lead that lacks any subset
\* of the scored fields; a component whose fields are all absent contributes 0
\* and every other component has the value it had with the fields present.
C13_OthersKeepValue ==
    (call.fn = "calculate_score" /\ "absent" \in DOMAIN call) =>
        LET got == components(call.args[1], current_year)
            was == components(call.full, current_year)
        IN /\ call.out.ok
           /\ \A k \in 1..5 :
                 IF ComponentFields[k] \subseteq call.absent
                 THEN got[k] = Return(0)
                 ELSE got[k] = was[k]

\* C13, amended: no error is raised on a lead that lacks any subset of the
\* scored fields, whether the keys are missing or hold ""; every component is
\* scored as if each absent field were the empty string: 0 when all its
\* fields are absent, its full value when none is, and from the fields that
\* remain when only some are.
C13_AbsentFieldsReadAsEmpty ==
    (call.fn = "calculate_score" /\ "absent" \in DOMAIN call) =>
        LET got == components(call.args[1], current_year)
            was == components(call.full, current_year)
            blanked == components(Without(call.full, call.absent, "empty"),
                                  current_year)
        IN /\ call.out.ok
           /\ call.out.v = Min(100, got[1].v + got[2].v + got[3].v + got[4].v + got[5].v)
           /\ \A k \in 1..5 :
                 /\ got[k].ok
                 /\ got[k] = blanked[k]
                 /\ ComponentFields[k] \subseteq call.absent => got[k] = Return(0)
                 /\ ComponentFields[k] \cap call.absent = {} => got[k] = was[k]

\* A lead that scored 40 on its publication was scored again with the key
\* publication_year deleted: the publication component fell to 10, the
\* others stayed.
C13_Witness ==
    /\ call.fn = "calculate_score" /\ "absent" \in DOMAIN call
    /\ call.full = JohnSmith
    /\ call.absent = {"publication_year"}
    /\ "publication_year" \notin DOMAIN call.args[1]
    /\ call.out = Return(85)

\* The six fields of claim C15 are present in the lead and hold "".
AllSignalsEmpty(lead) ==
    \A k \in {"title", "funding_stage", "uses_invitro", "person_location",
               "company_hq", "publication_topic"} :
        k \in DOMAIN lead /\ lead[k] = PyStr("")

\* C15: a lead whose title, funding_stage, uses_invitro, person_location,
\* company_hq and publication_topic are all the empty string is scored 0,
\* whatever its publication_year.
C15_EmptyLeadScoresZero ==
    (call.fn = "calculate_score" /\ AllSignalsEmpty(call.args[1])) =>
        call.out = Return(0)

\* A lead with the six fields empty and the recent year "2024" was scored 0.
C15_Witness ==
    /\ call.fn = "calculate_score"
    /\ AllSignalsEmpty(call.args[1])
    /\ call.args[1]["publication_year"] = PyStr("2024")
    /\ call.out = Return(0)

\* The values each scoring method can return and the weight that bounds it.
ComponentValues ==
    [_score_title |-> [values |-> {0, 9, 18, 30}, max |-> weights.title_match],
     _score_funding |-> [values |-> {0, 8, 16, 20}, max |-> weights.funding_stage],
     _score_technology |-> [values |-> {0, 15}, max |-> weights.uses_invitro],
     _score_location |-> [values |-> {0, 10}, max |-> weights.location_hub],
     _score_publication |-> [values |-> {0, 10, 20, 40},
                             max |-> weights.recent_dili_publication]]

\* C24: each component score is non-negative, never exceeds its configured
\* maximum weight, and takes only these values: title 0, 9, 18 or 30,
\* funding 0, 8, 16 or 20, technology 0 or 15, location 0 or 10,
\* publication 0, 10, 20 or 40.
C24_ComponentValueSets ==
    (call # NoCall /\ call.fn \in DOMAIN ComponentValues /\ call.out.ok) =>
        /\ call.out.v >= 0
        /\ call.out.v <= ComponentValues[call.fn].max
        /\ call.out.v \in ComponentValues[call.fn].values

\* _score_location was called with a hub in both fields and returned the
\* weight once.
C24_Witness ==
    /\ call.fn = "_score_location"
    /\ call.args = <<PyStr("Boston"), PyStr("Cambridge, MA")>>
    /\ call.out = Return(10)

(***************************************************************************)
(* Properties of the pipeline, checked under SpecMain                      *)
(***************************************************************************)
ExportSteps == {"save_to_csv", "save_to_excel", "print_summary"}

\* C20: in every run of main that reaches the export, whatever happened in
\* the scoring step, every lead handed to save_to_csv, save_to_excel and
\* print_summary holds an integer probability_score and a rank, and the ranks
\* of the batch start at 1.
C20_ExportedLeadsScored ==
    \A i \in 1..Len(trace) :
        trace[i].step \in ExportSteps =>
            LET rows == trace[i].rows
            IN /\ \A k \in 1..Len(rows) :
                     /\ "probability_score" \in DOMAIN rows[k]
                     /\ rows[k]["probability_score"].t = "int"
                     /\ "rank" \in DOMAIN rows[k]
                     /\ rows[k]["rank"].t = "int"
               /\ rows # <<>> => rows[1]["rank"] = PyInt(1)

\* The dicts a and b agree on every field other than those in except.
SameBut(a, b, except) ==
    /\ DOMAIN a \ except = DOMAIN b \ except
    /\ \A k \in DOMAIN a \ except : a[k] = b[k]

\* C21: scoring starts only after every enabled collector has returned and
\* the batch has been deduplicated and e-mail-enriched, export starts only
\* after scoring has returned, and the engine is invoked once, on the
\* finalized batch, never between two collectors: a score_leads step is the
\* eighth step of its run, after the five collector steps in order, then
\* remove_duplicates, then enrich_emails; no run has two; only export steps
\* follow it and every export step follows it.
C21_ScoringAfterCollection ==
    \A i \in 1..Len(trace) :
        /\ trace[i].step = "score_leads" =>
              /\ i = 8
              /\ trace[1].step = "crawl_pubmed"
              /\ trace[2].step = "crawl_nih"
              /\ trace[3].step = "crawl_europe_pmc"
              /\ trace[4].step = "crawl_clinical_trials"
              /\ trace[5].step \in {"crawl_google_scholar", "skip_scholar"}
              /\ trace[6].step = "remove_duplicates" /\ ~trace[6].raised
              /\ trace[7].step = "enrich_emails"
              /\ Len(trace[i].rows) = Len(trace[7].rows)
              /\ \A k \in 1..Len(trace[i].rows) :
                    SameBut(trace[i].rows[k], trace[7].rows[k], {"email"})
              /\ \A j \in 1..Len(trace) :
                    /\ j # i => trace[j].step # "score_leads"
                    /\ j > i => trace[j].step \in ExportSteps
        /\ trace[i].step \in ExportSteps =>
              \E j \in 1..(i - 1) : trace[j].step = "score_leads"
        /\ (pc = "done" /\ trace[Len(trace)].step = "print_summary") =>
              Len(SelectSeq(trace, LAMBDA e : e.step = "score_leads")) = 1

\* A run in which all five collectors returned leads went through scoring
\* and the three export steps.
C21_Witness ==
    /\ pc = "done"
    /\ Len(trace) = 11
    /\ \A k \in 1..5 : ~trace[k].raised /\ trace[k].rows # <<>>
    /\ trace[8].step = "score_leads" /\ ~trace[8].raised
    /\ Len(trace[8].rows) >= 4
    /\ trace[11].step = "print_summary"

\* The (lowercased name, lowercased company) pair of a row.
pair_of(row) ==
    <<lower(get(row, "name", PyStr("")).s),
      lower(get(row, "company", PyStr("")).s)>>

\* The positions of rows that hold the first occurrence of their pair.
FirstPositions(rows) ==
    {i \in 1..Len(rows) :
        \A j \in 1..(i - 1) : pair_of(rows[j]) # pair_of(rows[i])}

\* The rows at the first positions, in their original relative order.
FirstOccurrences(rows) ==
    LET first == FirstPositions(rows)
    IN [k \in 1..Cardinality(first) |->
           rows[CHOOSE i \in first :
                    Cardinality({j \in first : j <= i}) = k]]

\* C22: remove_duplicates returns exactly the first occurrence of each
\* (lowercased name, lowercased company) pair, in the original relative
\* order: no two returned leads share a pair, every pair of the input is a
\* pair of the output, and applying it again to its own output changes
\* nothing.
C22_FirstOccurrencesKept ==
    (Len(trace) = 6 /\ trace[6].step = "remove_duplicates" /\ ~trace[6].raised)
    => LET input == trace[6].rows
           output == rows_of(heap, leads)
       IN /\ output = FirstOccurrences(input)
          /\ \A a, b \in 1..Len(output) :
                pair_of(output[a]) = pair_of(output[b]) => a = b
          /\ {pair_of(input[i]) : i \in 1..Len(input)}
                = {pair_of(output[i]) : i \in 1..Len(output)}
          /\ unique_leads(heap, leads, 1, {}, <<>>) = Return(leads)

\* remove_duplicates has dropped a lead whose pair differs from an earlier
\* one only by case, with another lead between the two.
C22_Witness ==
    /\ Len(trace) = 6 /\ trace[6].step = "remove_duplicates" /\ ~trace[6].raised
    /\ Len(leads) >= 3
    /\ \E i, j \in 1..Len(trace[6].rows) :
          /\ j > i + 1
          /\ pair_of(trace[6].rows[i]) = pair_of(trace[6].rows[j])
          /\ trace[6].rows[i]["name"] # trace[6].rows[j]["name"]
    /\ Len(leads) < Len(trace[6].rows)

\* C23: enrich_leads changes only the email field, and only of leads whose
\* email was empty or absent: a lead that already holds a non-empty email
\* keeps it, no other field of any lead changes, and the number and the
\* order of the leads are unchanged.
C23_OnlyEmptyEmailsFilled ==
    (Len(trace) = 7 /\ trace[7].step = "enrich_emails")
    => LET before == trace[7].rows
           after == rows_of(heap, leads)
       IN /\ Len(after) = Len(before)
          /\ \A i \in 1..Len(before) :
                /\ SameBut(after[i], before[i], {"email"})
                /\ Truthy(get(before[i], "email", PyNone))
                      => after[i] = before[i]

\* enrich_leads has filled the email of one lead and met another lead that
\* already held an address.
C23_Witness ==
    /\ Len(trace) = 7 /\ trace[7].step = "enrich_emails" /\ ~trace[7].raised
    /\ \E i, j \in 1..Len(leads) :
          /\ Truthy(trace[7].rows[i]["email"])
          /\ heap[leads[i]]["email"] = trace[7].rows[i]["email"]
          /\ ~Truthy(trace[7].rows[j]["email"])
          /\ Truthy(heap[leads[j]]["email"])

\* The collector steps of main and the steps after them, in program order.
CrawlSteps ==
    <<"crawl_pubmed", "crawl_nih", "crawl_europe_pmc", "crawl_clinical_trials",
      "crawl_google_scholar">>

LaterSteps ==
    <<"remove_duplicates", "enrich_emails", "score_leads", "save_to_csv",
      "save_to_excel", "print_summary">>

\* The steps main calls outside a try block: their exception ends the run.
UncaughtSteps == {"remove_duplicates", "save_to_csv", "save_to_excel"}

\* all_leads after the first n collector steps, as the steps handed it over.
RECURSIVE GatheredBy(_)
GatheredBy(n) == IF n = 0 THEN <<>> ELSE GatheredBy(n - 1) \o trace[n].rows

Gathered == GatheredBy(5)

====
